---- MODULE Spec2Model ----
(***************************************************************************)
(* State machine of the SmartBuildingEnergyFHE contract                    *)
(* (src/contracts/SmartBuildingEnergyFHE.sol): encrypted submission,       *)
(* decryption requests to the oracle, the two decryption callbacks and the *)
(* homomorphic load sum.  Every transaction is atomic; a transaction that  *)
(* reverts leaves the contract storage as it was and is observed only      *)
(* through lastTx.                                                         *)
(***************************************************************************)
EXTENDS Integers, Sequences, FiniteSets, TLC

\* ------------------------------------------------------------------ bounds
\* Largest number of submissions explored.
MaxData == 2
\* Largest number of decryption requests the oracle is asked for.
MaxRequests == 2

\* ------------------------------------------------------------- uint32 values
\* A uint32 is kept as two 16-bit limbs <<hi, lo>> so that the whole range
\* 0 .. 2^32-1 and the wrap-around of 32-bit addition are represented exactly.
W16 == 2^16

U32(n) == <<n \div W16, n % W16>>

MaxU32 == <<W16 - 1, W16 - 1>>

ZeroU32 == U32(0)

\* 32-bit addition as performed on euint32 operands: the carry out of the
\* high limb is dropped.
Add32(a, b) ==
    LET lo == a[2] + b[2]
    IN  <<(a[1] + b[1] + (lo \div W16)) % W16, lo % W16>>

\* Addition in the integers on the same limb representation (the high limb
\* is not reduced); used to state what a sum ought to be.
AddWide(a, b) ==
    LET lo == a[2] + b[2]
    IN  <<a[1] + b[1] + (lo \div W16), lo % W16>>

\* ------------------------------------------------------------- FHE library
\* An euint32 handle: the empty tuple is the uninitialized handle (bytes32(0)),
\* an initialized handle carries the value it encrypts.
Uninitialized == <<>>

FHE_asEuint32(v) == <<"euint32", v[1], v[2]>>

FHE_isInitialized(h) == h # Uninitialized

\* What the decryption oracle obtains from an initialized handle.
Decrypt(h) == <<h[2], h[3]>>

FHE_add(x, y) == FHE_asEuint32(Add32(Decrypt(x), Decrypt(y)))

\* ------------------------------------------------------------ input domains
SystemKeys == <<"central_system", "hvac_zone">>

SystemKeyInputs == {SystemKeys[i] : i \in 1..Len(SystemKeys)}

KeyIndex(key) == CHOOSE i \in 1..Len(SystemKeys) : SystemKeys[i] = key

\* keccak256(abi.encodePacked(systemKey)) read as a uint256: an injective
\* image of the key, far away from the small submission ids.
Keccak(key) == W16 + KeyIndex(key)

bytes32ToUint(b) == b

\* Submission ids a caller may pass: zero, the ids the counter can reach, and
\* the uint256 that equals the hash of a system key (never a submission).
DataIds == (0..MaxData) \cup {Keccak("central_system")}

\* Request ids the oracle hands out, and one more that it never hands out.
RequestIds == 0..(MaxRequests - 1)

RequestIdInputs == 0..MaxRequests

Usages == {U32(3)}

TimestampValues == {U32(1700)}

\* The load a tenant encrypts and submits.
SubmittedLoads == {U32(5)}

\* Loads a callback may deliver as cleartext: a small one and the largest
\* uint32, so that sums with and without wrap-around both occur.
Loads == SubmittedLoads \cup {MaxU32}

\* block.timestamp values
BlockTimes == {100}

\* cleartexts as decoded by abi.decode: three values for a data request, one
\* value for a sum request.
DataCleartexts == {<<u, t, l>> : u \in Usages, t \in TimestampValues, l \in Loads}

SumCleartexts == {<<U32(5)>>}

Cleartexts == DataCleartexts \cup SumCleartexts

\* ------------------------------------------------------------------- state
VARIABLES
    dataCount,          \* uint256 public dataCount
    encryptedData,      \* mapping(uint256 => EncryptedEnergyData)
    decryptedData,      \* mapping(uint256 => DecryptedEnergyData)
    encryptedLoadSum,   \* mapping(string => euint32)
    systemList,         \* string[]
    requestToDataId,    \* mapping(uint256 => uint256)
    counterRequest,     \* number of decryption requests the oracle received
    oracleRequests,     \* the selector and the handles the oracle was given, by request id
    applied,            \* history: request ids whose reveal callback succeeded
    answered,           \* request ids the oracle has delivered its answer for
    lastTx              \* the last transaction: operation, outcome, events

storage == <<dataCount, encryptedData, decryptedData, encryptedLoadSum,
             systemList, requestToDataId>>

oracle == <<counterRequest, oracleRequests>>

vars == <<dataCount, encryptedData, decryptedData, encryptedLoadSum,
          systemList, requestToDataId, counterRequest, oracleRequests,
          applied, answered, lastTx>>

\* Default (never written) values of the two structs.
EmptyEncrypted ==
    [id |-> 0, encryptedTenantUsage |-> Uninitialized,
     encryptedTimestamp |-> Uninitialized,
     encryptedSystemLoad |-> Uninitialized, timestamp |-> 0]

EmptyDecrypted == [tenantUsage |-> ZeroU32, systemLoad |-> ZeroU32, isRevealed |-> FALSE]

\* Revert reasons of the source and the names the specification gives them.
AlreadyRevealed == "Already decrypted"

UnknownRequest == "Invalid request"

UnknownSystem == "System not found"

InvalidProof == "checkSignatures reverted"

IndexOutOfBounds == "Panic(0x32)"

Init ==
    /\ dataCount = 0
    /\ encryptedData = [i \in DataIds |-> EmptyEncrypted]
    /\ decryptedData = [i \in DataIds |-> EmptyDecrypted]
    /\ encryptedLoadSum = [k \in SystemKeyInputs |-> Uninitialized]
    /\ systemList = <<>>
    /\ requestToDataId = [r \in RequestIdInputs |-> 0]
    /\ counterRequest = 0
    /\ oracleRequests = [r \in RequestIdInputs |-> <<>>]
    /\ applied = {}
    /\ answered = {}
    /\ lastTx = [op |-> "constructor", status |-> "ok", events |-> <<>>]

\* A transaction that reverts: storage and oracle are as before.
Revert(op, reason) ==
    /\ lastTx' = [op |-> op, status |-> reason, events |-> <<>>]
    /\ UNCHANGED <<storage, oracle>>

\* ------------------------------------------------------------ submission
\* Mutant: the counter is read without being incremented.
NextId_NoIncrement(count) == count

\* Mutant: the counter stops at 1, every later submit takes id 1 again.
NextId_Stuck(count) == IF count = 0 THEN 1 ELSE count

\* dataCount += 1; uint256 newId = dataCount;
NextId(count) == count + 1

\* The placeholder written to decryptedData[newId] by a submission.
Placeholder == [tenantUsage |-> ZeroU32, systemLoad |-> ZeroU32, isRevealed |-> FALSE]

submitEncryptedEnergyData(encryptedTenantUsage, encryptedTimestamp, encryptedSystemLoad, blockTimestamp) ==
    LET newId == NextId(dataCount)
    IN  /\ dataCount' = newId
        /\ encryptedData' = [encryptedData EXCEPT ![newId] =
               [id |-> newId,
                encryptedTenantUsage |-> encryptedTenantUsage,
                encryptedTimestamp |-> encryptedTimestamp,
                encryptedSystemLoad |-> encryptedSystemLoad,
                timestamp |-> blockTimestamp]]
        /\ decryptedData' = [decryptedData EXCEPT ![newId] = Placeholder]
        /\ lastTx' = [op |-> "submitEncryptedEnergyData",
                      status |-> "ok",
                      events |-> << <<"EnergyDataSubmitted", newId, blockTimestamp>> >>]
        /\ UNCHANGED <<encryptedLoadSum, systemList, requestToDataId, oracle>>

\* ------------------------------------------------------ decryption oracle
\* FHE.requestDecryption(ciphertexts, selector): the oracle receives one more
\* request, keeps the selector of the callback it is to call and the handles
\* it is to decrypt, and answers with the request id reqId.
FHE_requestDecryption(ciphertexts, selector, reqId) ==
    /\ counterRequest' = counterRequest + 1
    /\ oracleRequests' = [oracleRequests EXCEPT ![reqId] = <<selector, ciphertexts>>]

\* The selector given with request reqId; "" when the oracle has no such
\* request.
SelectorOf(reqId) ==
    IF oracleRequests[reqId] = <<>> THEN "" ELSE oracleRequests[reqId][1]

\* The handles given with request reqId.
HandlesOf(reqId) ==
    IF oracleRequests[reqId] = <<>> THEN <<>> ELSE oracleRequests[reqId][2]

\* Mutant: the request does not look at the reveal flag.
NotRevealedAtRequest_Always(dataId) == TRUE

\* require(!decryptedData[dataId].isRevealed, "Already decrypted") of the request
NotRevealedAtRequest(dataId) == ~decryptedData[dataId].isRevealed

\* Mutant: every request id is recorded for submission 1.
RecordRequest_First(reqId, target) == [requestToDataId EXCEPT ![reqId] = 1]

\* requestToDataId[reqId] = target
RecordRequest(reqId, target) == [requestToDataId EXCEPT ![reqId] = target]

requestEnergyDataDecryption(dataId, reqId) ==
    LET dataEntry == encryptedData[dataId]
        ciphertexts == <<dataEntry.encryptedTenantUsage,
                         dataEntry.encryptedTimestamp,
                         dataEntry.encryptedSystemLoad>>
        op == "requestEnergyDataDecryption"
    IN  IF ~NotRevealedAtRequest(dataId)
        THEN Revert(op, AlreadyRevealed)
        ELSE /\ FHE_requestDecryption(ciphertexts, "decryptEnergyData", reqId)
             /\ requestToDataId' = RecordRequest(reqId, dataId)
             /\ lastTx' = [op |-> op, status |-> "ok",
                           events |-> << <<"DecryptionRequested", dataId>> >>]
             /\ UNCHANGED <<dataCount, encryptedData, decryptedData,
                            encryptedLoadSum, systemList>>

\* ------------------------------------------------------- reveal callback
\* require(dataId != 0, "Invalid request")
KnownRequest(dataId) == dataId # 0

\* Mutant: the callback does not look at the reveal flag.
NotRevealedAtCallback_Always(dataId) == TRUE

\* Mutant: no proof verifies.
checkSignatures_Never(requestId, cleartexts, proofValid) == FALSE

\* Mutant: the proof is not verified.
checkSignatures_Skipped(requestId, cleartexts, proofValid) == TRUE

\* require(!dData.isRevealed, "Already decrypted") of the callback
NotRevealedAtCallback(dataId) == ~decryptedData[dataId].isRevealed

\* FHE.checkSignatures(requestId, cleartexts, proof): reverts unless the
\* proof verifies; the verdict is the library's.
checkSignatures(requestId, cleartexts, proofValid) == proofValid

\* Mutant: the plaintexts are written and the flag is left unset.
RevealedRecord_FlagNotSet(results) ==
    [tenantUsage |-> results[1], systemLoad |-> results[3], isRevealed |-> FALSE]

\* dData.tenantUsage = results[0]; dData.systemLoad = results[2];
\* dData.isRevealed = true;   (Solidity indexes from 0, sequences from 1)
RevealedRecord(results) ==
    [tenantUsage |-> results[1], systemLoad |-> results[3], isRevealed |-> TRUE]

\* Mutant: the three writes land in every record of the mapping.
WriteRecord_All(records, dataId, results) == [i \in DOMAIN records |-> RevealedRecord(results)]

\* DecryptedEnergyData storage dData = decryptedData[dataId]; the three
\* writes through dData change the record of dataId and no other.
WriteRecord(records, dataId, results) == [records EXCEPT ![dataId] = RevealedRecord(results)]

\* Mutant: the accumulator is overwritten with the encrypted load.
Accumulate_Overwrite(sum, load) == FHE_asEuint32(load)

\* The accumulator after adding one revealed load: initialized to the
\* encryption of zero on first use, then FHE.add.
Accumulate(sum, load) ==
    LET base == IF FHE_isInitialized(sum) THEN sum ELSE FHE_asEuint32(ZeroU32)
    IN  FHE_add(base, FHE_asEuint32(load))

\* Mutant: the key is pushed at every contribution.
Register_Always(list, sum, systemKey) == Append(list, systemKey)

\* systemList.push(systemKey) on first use only.
Register(list, sum, systemKey) ==
    IF FHE_isInitialized(sum) THEN list ELSE Append(list, systemKey)

decryptEnergyData(requestId, cleartexts, proofValid) ==
    LET dataId == requestToDataId[requestId]
        op == "decryptEnergyData"
        results == cleartexts
        systemKey == "central_system"
    IN  IF ~KnownRequest(dataId)
        THEN Revert(op, UnknownRequest)
        ELSE IF ~NotRevealedAtCallback(dataId)
        THEN Revert(op, AlreadyRevealed)
        ELSE IF ~checkSignatures(requestId, cleartexts, proofValid)
        THEN Revert(op, InvalidProof)
        ELSE IF Len(results) < 3
        THEN Revert(op, IndexOutOfBounds)
        ELSE /\ decryptedData' = WriteRecord(decryptedData, dataId, results)
             /\ encryptedLoadSum' = [encryptedLoadSum EXCEPT ![systemKey] =
                    Accumulate(encryptedLoadSum[systemKey], results[3])]
             /\ systemList' = Register(systemList, encryptedLoadSum[systemKey], systemKey)
             /\ lastTx' = [op |-> op, status |-> "ok",
                           events |-> << <<"EnergyDataDecrypted", dataId>> >>]
             /\ UNCHANGED <<dataCount, encryptedData, requestToDataId, oracle>>

\* The part of the storage a reveal callback reads or writes, with the
\* outcome of the last callback applied to it.
CallbackState ==
    [requestToDataId |-> requestToDataId, decryptedData |-> decryptedData,
     encryptedLoadSum |-> encryptedLoadSum, systemList |-> systemList,
     status |-> "ok"]

\* decryptEnergyData as a function of the storage st it runs on: the storage
\* it leaves, with status "ok", or st with the reason of the revert.
ApplyReveal(st, requestId, cleartexts, proofValid) ==
    LET dataId == st.requestToDataId[requestId]
        systemKey == "central_system"
    IN  IF ~KnownRequest(dataId)
        THEN [st EXCEPT !.status = UnknownRequest]
        ELSE IF st.decryptedData[dataId].isRevealed
        THEN [st EXCEPT !.status = AlreadyRevealed]
        ELSE IF ~checkSignatures(requestId, cleartexts, proofValid)
        THEN [st EXCEPT !.status = InvalidProof]
        ELSE IF Len(cleartexts) < 3
        THEN [st EXCEPT !.status = IndexOutOfBounds]
        ELSE [requestToDataId |-> st.requestToDataId,
              decryptedData |-> WriteRecord(st.decryptedData, dataId, cleartexts),
              encryptedLoadSum |-> [st.encryptedLoadSum EXCEPT ![systemKey] =
                  Accumulate(st.encryptedLoadSum[systemKey], cleartexts[3])],
              systemList |-> Register(st.systemList, st.encryptedLoadSum[systemKey], systemKey),
              status |-> "ok"]

\* ------------------------------------------------------------- load sum
\* The indexes of systemList whose hash is `hash`; the loop returns the first.
HashMatches(hash) ==
    {i \in 1..Len(systemList) : bytes32ToUint(Keccak(systemList[i])) = hash}

getSystemFromHash(hash) ==
    LET m == HashMatches(hash)
    IN  IF m = {} THEN <<>>
        ELSE <<systemList[CHOOSE i \in m : \A j \in m : i <= j]>>

\* Mutant: a sum may be requested only while no sum request was ever made.
SystemKnown_Once(sum) ==
    /\ FHE_isInitialized(sum)
    /\ \A r \in RequestIdInputs : SelectorOf(r) # "decryptLoadSum"

\* Mutant: the sum of any system key may be requested.
SystemKnown_Always(sum) == TRUE

\* require(FHE.isInitialized(sum), "System not found")
SystemKnown(sum) == FHE_isInitialized(sum)

requestLoadSumDecryption(systemKey, reqId) ==
    LET sum == encryptedLoadSum[systemKey]
        op == "requestLoadSumDecryption"
    IN  IF ~SystemKnown(sum)
        THEN Revert(op, UnknownSystem)
        ELSE /\ FHE_requestDecryption(<<sum>>, "decryptLoadSum", reqId)
             /\ requestToDataId' =
                    RecordRequest(reqId, bytes32ToUint(Keccak(systemKey)))
             /\ lastTx' = [op |-> op, status |-> "ok",
                           events |-> <<>>]
             /\ UNCHANGED <<dataCount, encryptedData, decryptedData,
                            encryptedLoadSum, systemList>>

decryptLoadSum(requestId, cleartexts, proofValid) ==
    LET systemHash == requestToDataId[requestId]
        op == "decryptLoadSum"
    IN  IF getSystemFromHash(systemHash) = <<>>
        THEN Revert(op, UnknownSystem)
        ELSE IF ~checkSignatures(requestId, cleartexts, proofValid)
        THEN Revert(op, InvalidProof)
        ELSE /\ lastTx' = [op |-> op, status |-> "ok",
                           events |-> <<>>]
             /\ UNCHANGED <<storage, oracle>>

\* ------------------------------------------------------------------ views
getDecryptedEnergyData(dataId) ==
    <<decryptedData[dataId].tenantUsage, decryptedData[dataId].systemLoad,
      decryptedData[dataId].isRevealed>>

getEncryptedLoadSum(systemKey) == encryptedLoadSum[systemKey]

\* The getter of the public mapping encryptedData.
encryptedData_getter(dataId) == encryptedData[dataId]

\* The outcome of a call of a view: none of the three has a require or any
\* other statement that reverts, so the call returns, and it writes nothing.
ViewCall(op, value) == [op |-> op, status |-> "ok", value |-> value]

Call_getDecryptedEnergyData(dataId) ==
    ViewCall("getDecryptedEnergyData", getDecryptedEnergyData(dataId))

Call_getEncryptedLoadSum(systemKey) ==
    ViewCall("getEncryptedLoadSum", getEncryptedLoadSum(systemKey))

Call_encryptedData(dataId) == ViewCall("encryptedData", encryptedData_getter(dataId))

\* ---------------------------------------------------------- specification
Submit ==
    \E u \in Usages, t \in TimestampValues, l \in SubmittedLoads, now \in BlockTimes :
        /\ dataCount < MaxData
        /\ now >= encryptedData[dataCount].timestamp
        /\ submitEncryptedEnergyData(FHE_asEuint32(u), FHE_asEuint32(t),
                                     FHE_asEuint32(l), now)
        /\ UNCHANGED <<applied, answered>>

\* The oracle numbers its requests: every request id is fresh.
RequestReveal ==
    \E dataId \in DataIds :
        /\ counterRequest < MaxRequests
        /\ requestEnergyDataDecryption(dataId, counterRequest)
        /\ UNCHANGED <<applied, answered>>

RevealCallback ==
    \E requestId \in RequestIdInputs, cleartexts \in Cleartexts, proofValid \in BOOLEAN :
        /\ decryptEnergyData(requestId, cleartexts, proofValid)
        /\ applied' = IF lastTx'.status = "ok"
                      THEN applied \cup {requestId}
                      ELSE applied
        /\ UNCHANGED answered

RequestSumReveal ==
    \E systemKey \in SystemKeyInputs :
        /\ counterRequest < MaxRequests
        /\ requestLoadSumDecryption(systemKey, counterRequest)
        /\ UNCHANGED <<applied, answered>>

SumRevealCallback ==
    \E requestId \in RequestIdInputs, cleartexts \in SumCleartexts, proofValid \in BOOLEAN :
        /\ decryptLoadSum(requestId, cleartexts, proofValid)
        /\ UNCHANGED <<applied, answered>>

Next ==
    \/ Submit
    \/ RequestReveal
    \/ RevealCallback
    \/ RequestSumReveal
    \/ SumRevealCallback

Spec == Init /\ [][Next]_vars

\* An oracle that may answer with a request id it has used before.
RequestRevealAnyId ==
    \E dataId \in DataIds, reqId \in RequestIds :
        /\ counterRequest < MaxRequests
        /\ requestEnergyDataDecryption(dataId, reqId)
        /\ UNCHANGED <<applied, answered>>

RequestSumRevealAnyId ==
    \E systemKey \in SystemKeyInputs, reqId \in RequestIds :
        /\ counterRequest < MaxRequests
        /\ requestLoadSumDecryption(systemKey, reqId)
        /\ UNCHANGED <<applied, answered>>

NextAnyId ==
    \/ Submit
    \/ RequestRevealAnyId
    \/ RevealCallback
    \/ RequestSumRevealAnyId
    \/ SumRevealCallback

SpecAnyId == Init /\ [][NextAnyId]_vars

\* ----------------------------------------------------------- honest oracle
\* The oracle as the FHE library specifies it: it decrypts the handles it
\* was given with a request and signs exactly those plaintexts, so that
\* checkSignatures accepts a callback for a request id only with the
\* plaintexts of that request's handles.  It cannot decrypt a handle that
\* was never initialized.  Any caller may still call either callback with a
\* proof that does not verify.
Answerable(reqId) ==
    /\ oracleRequests[reqId] # <<>>
    /\ \A i \in 1..Len(HandlesOf(reqId)) : FHE_isInitialized(HandlesOf(reqId)[i])

Answer(reqId) == [i \in 1..Len(HandlesOf(reqId)) |-> Decrypt(HandlesOf(reqId)[i])]

\* The history the oracle keeps of the request ids it has delivered.
Delivered(requestId) ==
    IF lastTx'.status = "ok" THEN answered \cup {requestId} ELSE answered

\* Tenants submit readings that differ from one another.
SubmitAny ==
    \E u \in Usages, t \in TimestampValues, l \in Loads, now \in BlockTimes :
        /\ dataCount < MaxData
        /\ now >= encryptedData[dataCount].timestamp
        /\ submitEncryptedEnergyData(FHE_asEuint32(u), FHE_asEuint32(t),
                                     FHE_asEuint32(l), now)
        /\ UNCHANGED <<applied, answered>>

\* The sum may be requested once more than MaxRequests allows, so that a sum
\* can be requested again after it was delivered.
RequestSumRevealAgain ==
    \E systemKey \in SystemKeyInputs :
        /\ counterRequest < MaxRequests + 1
        /\ requestLoadSumDecryption(systemKey, counterRequest)
        /\ UNCHANGED <<applied, answered>>

\* The oracle calls the reveal callback it was given the selector of.
AnswerRevealOf(requestId) ==
    /\ SelectorOf(requestId) = "decryptEnergyData"
    /\ Answerable(requestId)
    /\ decryptEnergyData(requestId, Answer(requestId), TRUE)
    /\ applied' = IF lastTx'.status = "ok"
                  THEN applied \cup {requestId}
                  ELSE applied
    /\ answered' = Delivered(requestId)

AnswerReveal == \E requestId \in RequestIdInputs : AnswerRevealOf(requestId)

AnswerSum ==
    \E requestId \in RequestIdInputs :
        /\ SelectorOf(requestId) = "decryptLoadSum"
        /\ Answerable(requestId)
        /\ decryptLoadSum(requestId, Answer(requestId), TRUE)
        /\ answered' = Delivered(requestId)
        /\ UNCHANGED applied

ForgedReveal ==
    \E requestId \in RequestIdInputs, cleartexts \in Cleartexts :
        /\ decryptEnergyData(requestId, cleartexts, FALSE)
        /\ UNCHANGED <<applied, answered>>

ForgedSum ==
    \E requestId \in RequestIdInputs, cleartexts \in SumCleartexts :
        /\ decryptLoadSum(requestId, cleartexts, FALSE)
        /\ UNCHANGED <<applied, answered>>

NextHonest ==
    \/ SubmitAny
    \/ RequestReveal
    \/ AnswerReveal
    \/ RequestSumRevealAgain
    \/ AnswerSum
    \/ ForgedReveal
    \/ ForgedSum

SpecHonest == Init /\ [][NextHonest]_vars

\* The oracle answers every request it can answer: a callback that would
\* change the state is eventually delivered.
FairSpec ==
    SpecHonest /\ \A requestId \in RequestIdInputs : WF_vars(AnswerRevealOf(requestId))

\* ================================================================ claims
\* Ids other than zero: the keys under which a record can be stored.
RecordIds == DataIds \ {0}

\* The last transaction was a successful call of op.
Succeeded(op) == lastTx.op = op /\ lastTx.status = "ok"

\* ----------------------------------------------------------------- C1
\* Every submission stored so far carries its own key as id, and no key
\* beyond the counter holds a submission.
IdsAssigned ==
    \A i \in DataIds :
        encryptedData[i].id = (IF i \in 1..dataCount THEN i ELSE 0)

\* A submit step takes the id one above the counter, which no stored
\* submission has, stores the submission under it and announces it.
SubmitTakesNextId ==
    lastTx'.op = "submitEncryptedEnergyData" =>
        /\ lastTx'.status = "ok"
        /\ dataCount' = dataCount + 1
        /\ dataCount' \notin 1..dataCount
        /\ encryptedData'[dataCount'].id = dataCount'
        /\ lastTx'.events[1][2] = dataCount'

\* C1: the k-th successful submit is assigned id k: ids start at 1, each is
\* one more than the previous one and none is assigned twice, whatever has
\* been requested or revealed in between.
C1_SequentialIds ==
    /\ dataCount = 0
    /\ []IdsAssigned
    /\ [][SubmitTakesNextId]_vars

\* A submit that follows the reveal of an earlier submission.
C1_Witness ==
    /\ Succeeded("submitEncryptedEnergyData")
    /\ dataCount = 2
    /\ decryptedData[1].isRevealed
    /\ encryptedData[2].id = 2

\* ----------------------------------------------------------------- C2
\* C2: for every id, revealed is false until a successful reveal callback
\* for a request mapped to that id, and from then on it is true in every
\* later state: no operation sets it back to false.
C2_RevealedOnceAndForAll ==
    [][\A i \in RecordIds :
          /\ (~decryptedData[i].isRevealed /\ decryptedData'[i].isRevealed) =>
                /\ lastTx'.op = "decryptEnergyData"
                /\ lastTx'.status = "ok"
                /\ lastTx'.events = << <<"EnergyDataDecrypted", i>> >>
          /\ decryptedData[i].isRevealed => decryptedData'[i].isRevealed]_vars

\* ----------------------------------------------------------------- C3
\* C3: the plaintext usage and load of a revealed record are write-once: no
\* later operation changes either value.
C3_PlaintextWriteOnce ==
    [][\A i \in RecordIds :
          decryptedData[i].isRevealed =>
              /\ decryptedData'[i].tenantUsage = decryptedData[i].tenantUsage
              /\ decryptedData'[i].systemLoad = decryptedData[i].systemLoad]_vars

\* ----------------------------------------------------------------- C4
\* C4: a reveal callback with a request id that no reveal request recorded
\* (never handed out, or handed out to a sum request) fails with
\* UnknownRequest and leaves every store unchanged.
C4_UnknownRequestRejected ==
    [][lastTx'.op = "decryptEnergyData" =>
          \A r \in RequestIdInputs :
              (SelectorOf(r) # "decryptEnergyData"
                 /\ \E c \in Cleartexts, p \in BOOLEAN : decryptEnergyData(r, c, p)) =>
                  /\ lastTx'.status = UnknownRequest
                  /\ lastTx'.events = <<>>
                  /\ UNCHANGED <<storage, oracle>>]_vars

\* ----------------------------------------------------------------- C5
\* C5: a reveal callback with an invalid proof changes no state, and when
\* its request is known and its target not yet revealed it fails with
\* InvalidProof: the target stays un-revealed with zero plaintexts and the
\* sum is not updated.
C5_InvalidProofRejected ==
    [][lastTx'.op = "decryptEnergyData" =>
          \A r \in RequestIdInputs :
              (\E c \in Cleartexts : decryptEnergyData(r, c, FALSE)) =>
                  /\ lastTx'.status # "ok"
                  /\ lastTx'.events = <<>>
                  /\ UNCHANGED <<storage, oracle>>
                  /\ (requestToDataId[r] # 0
                        /\ ~decryptedData[requestToDataId[r]].isRevealed) =>
                           /\ lastTx'.status = InvalidProof
                           /\ ~decryptedData'[requestToDataId[r]].isRevealed]_vars

\* One reading submitted and requested, then a callback with a tampered
\* proof.
C5_Witness ==
    /\ lastTx.op = "decryptEnergyData"
    /\ lastTx.status = InvalidProof
    /\ dataCount = 1
    /\ requestToDataId[0] = 1
    /\ decryptedData[1] = Placeholder
    /\ ~FHE_isInitialized(encryptedLoadSum["central_system"])

\* ----------------------------------------------------------------- C6
\* C6: right after a successful reveal callback, delivering a callback with
\* a valid proof for a request id of the same target fails with
\* AlreadyRevealed or UnknownRequest and changes no state; the load is not
\* added to the sum a second time.
C6_SecondDeliveryIdempotent ==
    [][Succeeded("decryptEnergyData") =>
          \A r \in RequestIdInputs, c \in Cleartexts :
              (requestToDataId[r] = lastTx.events[1][2]
                 /\ decryptEnergyData(r, c, TRUE)) =>
                  /\ lastTx'.status \in {AlreadyRevealed, UnknownRequest}
                  /\ UNCHANGED <<storage, oracle>>]_vars

\* A duplicate delivery was rejected and the sum holds the load once.
C6_Witness ==
    /\ lastTx.op = "decryptEnergyData"
    /\ lastTx.status = AlreadyRevealed
    /\ dataCount = 1
    /\ counterRequest = 1
    /\ decryptedData[1].isRevealed
    /\ encryptedLoadSum["central_system"] = FHE_asEuint32(decryptedData[1].systemLoad)

\* ----------------------------------------------------------------- C7
\* C7: a reveal request for an id whose record is already revealed fails
\* with AlreadyRevealed: nothing is sent to the oracle, no pending request is
\* recorded and no event is emitted.
C7_RequestOnRevealedRejected ==
    [][\A d \in DataIds, r \in RequestIds :
          (decryptedData[d].isRevealed /\ requestEnergyDataDecryption(d, r)) =>
              /\ lastTx'.status = AlreadyRevealed
              /\ lastTx'.events = <<>>
              /\ counterRequest' = counterRequest
              /\ requestToDataId' = requestToDataId
              /\ UNCHANGED <<storage, oracle>>]_vars

\* A request for a revealed submission was rejected.
C7_Witness ==
    /\ lastTx.op = "requestEnergyDataDecryption"
    /\ lastTx.status = AlreadyRevealed
    /\ dataCount >= 1
    /\ decryptedData[1].isRevealed
    /\ counterRequest = 1

\* ----------------------------------------------------------------- C8
\* The request ids handed out so far that are mapped to id i.
RequestsFor(i) == {r \in RequestIds : r < counterRequest /\ requestToDataId[r] = i}

\* C8: every existing, un-revealed submission has at most one request id
\* mapped to it.
C8_OneOutstandingRequest ==
    \A i \in 1..dataCount :
        ~decryptedData[i].isRevealed => Cardinality(RequestsFor(i)) <= 1

\* ----------------------------------------------------------------- C9
\* C9: a request id is never remapped: an entry of the pending-request
\* mapping keeps the target it was first given.
C9_RequestIdNeverRemapped ==
    [][\A r \in RequestIds :
          requestToDataId[r] # 0 => requestToDataId'[r] = requestToDataId[r]]_vars

\* ---------------------------------------------------------------- C10
RECURSIVE SumWide(_)
\* The sum, in the integers, of the revealed loads of the ids in S.
SumWide(S) ==
    IF S = {} THEN ZeroU32
    ELSE LET i == CHOOSE x \in S : TRUE
         IN  AddWide(decryptedData[i].systemLoad, SumWide(S \ {i}))

RevealedIds == {i \in RecordIds : decryptedData[i].isRevealed}

\* The plaintext of the accumulator of a system key; nothing has been added
\* to an accumulator that is not initialized.
PlainSum(systemKey) ==
    IF FHE_isInitialized(encryptedLoadSum[systemKey])
    THEN Decrypt(encryptedLoadSum[systemKey])
    ELSE ZeroU32

\* C10: in every state the plaintext of the "central_system" sum is the sum
\* of the loads of exactly the revealed records, each counted once.
C10_SumOfRevealedLoads ==
    PlainSum("central_system") = SumWide(RevealedIds)

\* ---------------------------------------------------------------- C11
\* Two request ids mapped to two distinct submissions, neither revealed.
BothPending(rA, rB) ==
    LET a == requestToDataId[rA]
        b == requestToDataId[rB]
    IN  /\ a \in 1..dataCount
        /\ b \in 1..dataCount
        /\ a # b
        /\ ~decryptedData[a].isRevealed
        /\ ~decryptedData[b].isRevealed

\* Loads 10 and 20 accumulate to the encryption of 30 in both orders.
TenAndTwenty ==
    /\ Accumulate(Accumulate(Uninitialized, U32(10)), U32(20)) = FHE_asEuint32(U32(30))
    /\ Accumulate(Accumulate(Uninitialized, U32(20)), U32(10)) = FHE_asEuint32(U32(30))

\* What two callbacks delivered one after the other leave: the outcome of
\* each, the sum, and the records of the two ids a and b.
Outcome(first, second, a, b) ==
    <<first.status, second.status, second.encryptedLoadSum["central_system"],
      second.decryptedData[a], second.decryptedData[b]>>

AThenB(rA, cA, rB, cB) ==
    LET first == ApplyReveal(CallbackState, rA, cA, TRUE)
    IN  Outcome(first, ApplyReveal(first, rB, cB, TRUE),
                requestToDataId[rA], requestToDataId[rB])

BThenA(rA, cA, rB, cB) ==
    LET first == ApplyReveal(CallbackState, rB, cB, TRUE)
    IN  Outcome(first, ApplyReveal(first, rA, cA, TRUE),
                requestToDataId[rA], requestToDataId[rB])

\* From the current state, the callbacks of two pending submissions succeed
\* in both orders and leave the same sum and the same two records, each
\* record holding what its own callback delivered.
PendingPairCommutes ==
    \A rA, rB \in RequestIds, cA, cB \in DataCleartexts :
        BothPending(rA, rB) =>
            /\ AThenB(rA, cA, rB, cB) = BThenA(rA, cA, rB, cB)
            /\ AThenB(rA, cA, rB, cB) =
                  <<"ok", "ok",
                    Accumulate(Accumulate(encryptedLoadSum["central_system"], cA[3]), cB[3]),
                    RevealedRecord(cA), RevealedRecord(cB)>>

OrderIndependent == PendingPairCommutes /\ TenAndTwenty

\* A successful step of the reveal callback leaves what ApplyReveal
\* computes.
CallbackConforms ==
    (lastTx'.op = "decryptEnergyData" /\ lastTx'.status = "ok") =>
        \A r \in RequestIds, c \in DataCleartexts :
            decryptEnergyData(r, c, TRUE) =>
                LET s == ApplyReveal(CallbackState, r, c, TRUE)
                IN  /\ lastTx'.status = s.status
                    /\ requestToDataId' = s.requestToDataId
                    /\ decryptedData' = s.decryptedData
                    /\ encryptedLoadSum' = s.encryptedLoadSum
                    /\ systemList' = s.systemList

\* C11: accumulation is order independent: for two submissions with pending
\* requests, delivering A's callback then B's or B's then A's gives the same
\* sum and the same pair of records; loads 10 and 20 give 30 either way.
C11_OrderIndependence ==
    /\ []OrderIndependent
    /\ [][CallbackConforms]_vars

\* Two submissions revealed with different loads, the sum holding both.
C11_Witness ==
    /\ Succeeded("decryptEnergyData")
    /\ dataCount = 2
    /\ decryptedData[1].isRevealed
    /\ decryptedData[2].isRevealed
    /\ decryptedData[1].systemLoad # decryptedData[2].systemLoad
    /\ encryptedLoadSum["central_system"] =
           FHE_asEuint32(Add32(decryptedData[1].systemLoad, decryptedData[2].systemLoad))

\* ---------------------------------------------------------------- C12
\* C12: a sum request for a system key whose accumulator was never
\* initialized fails with UnknownSystem, sends nothing to the oracle and
\* records no pending request; for a key whose accumulator exists it
\* succeeds, reaches the oracle and is recorded under the hash of the key.
C12_SumRequestNeedsAccumulator ==
    [][\A k \in SystemKeyInputs, r \in RequestIds :
          (lastTx'.op = "requestLoadSumDecryption" /\ requestLoadSumDecryption(k, r)) =>
              IF FHE_isInitialized(encryptedLoadSum[k])
              THEN /\ lastTx'.status = "ok"
                   /\ counterRequest' = counterRequest + 1
                   /\ oracleRequests'[r] = <<"decryptLoadSum", <<encryptedLoadSum[k]>> >>
                   /\ requestToDataId'[r] = Keccak(k)
              ELSE /\ lastTx'.status = UnknownSystem
                   /\ lastTx'.events = <<>>
                   /\ UNCHANGED <<storage, oracle>>]_vars

\* The sum of a key without contributions was refused while the sum of
\* another key exists.
C12_Witness ==
    /\ lastTx.op = "requestLoadSumDecryption"
    /\ lastTx.status = UnknownSystem
    /\ FHE_isInitialized(encryptedLoadSum["central_system"])
    /\ ~FHE_isInitialized(encryptedLoadSum["hvac_zone"])

\* ---------------------------------------------------------------- C13
\* C13: reading the sum of a system key whose accumulator was never
\* initialized fails with UnknownSystem; for any other key the read returns
\* the current encrypted sum.
C13_GetSumUnknownSystem ==
    \A k \in SystemKeyInputs :
        LET call == Call_getEncryptedLoadSum(k)
        IN  IF FHE_isInitialized(encryptedLoadSum[k])
            THEN call.status = "ok" /\ call.value = encryptedLoadSum[k]
            ELSE call.status = UnknownSystem

\* ---------------------------------------------------------------- C14
\* The error the specification gives a read of an unknown id; no revert of
\* the contract carries it.
NotFound == "NotFound"

\* C14: reading the record or the submission of an id that is zero or above
\* the counter fails with NotFound; for an id in 1..counter whose record is
\* not revealed the read returns usage 0, load 0 and revealed false.
C14_ReadUnknownIdNotFound ==
    \A i \in DataIds :
        LET rec == Call_getDecryptedEnergyData(i)
            sub == Call_encryptedData(i)
        IN  IF i \in 1..dataCount
            THEN /\ rec.status = "ok"
                 /\ sub.status = "ok"
                 /\ ~decryptedData[i].isRevealed => rec.value = <<ZeroU32, ZeroU32, FALSE>>
            ELSE /\ rec.status = NotFound
                 /\ sub.status = NotFound

\* ---------------------------------------------------------------- C15
\* C15: a successful sum callback (request id that resolves to a system key,
\* valid proof) stores the delivered sum and marks the accumulator revealed:
\* the storage after the callback is not the storage before it.
C15_SumStored ==
    [][\A r \in RequestIdInputs, c \in SumCleartexts :
          (getSystemFromHash(requestToDataId[r]) # <<>> /\ decryptLoadSum(r, c, TRUE)) =>
              /\ lastTx'.status = "ok"
              /\ storage' # storage]_vars

\* ---------------------------------------------------------------- C16
\* The event the specification names for each state-changing operation,
\* under the name the contract declares where it declares one.
EventOf(op) ==
    CASE op = "submitEncryptedEnergyData" -> "EnergyDataSubmitted"
      [] op = "requestEnergyDataDecryption" -> "DecryptionRequested"
      [] op = "decryptEnergyData" -> "EnergyDataDecrypted"
      [] op = "requestLoadSumDecryption" -> "SumDecryptionRequested"
      [] op = "decryptLoadSum" -> "SumRevealed"

\* C16: every successful state-changing operation has emitted exactly one
\* event, its own, and a failed operation has emitted none.
C16_OneEventPerOperation ==
    lastTx.op # "constructor" =>
        IF lastTx.status = "ok"
        THEN /\ Len(lastTx.events) = 1
             /\ lastTx.events[1][1] = EventOf(lastTx.op)
        ELSE lastTx.events = <<>>

\* ---------------------------------------------------------------- C17
\* C17: no request id has more than one successful reveal callback: every
\* successful callback is for a request id that was not applied before.
C17_AppliedOncePerRequest ==
    [][(lastTx'.op = "decryptEnergyData" /\ lastTx'.status = "ok") =>
          applied' # applied]_vars

\* ---------------------------------------------------------------- C18
\* C18: every id whose record is revealed, or holds a non-zero plaintext,
\* is the id of an existing submission.
C18_RevealedOnlyIfSubmitted ==
    \A i \in RecordIds :
        (\/ decryptedData[i].isRevealed
         \/ decryptedData[i].tenantUsage # ZeroU32
         \/ decryptedData[i].systemLoad # ZeroU32) => i \in 1..dataCount

\* ---------------------------------------------------------------- C19
\* A request id recorded by a reveal request does not resolve to a system
\* key, so the sum callback rejects it.
RevealRequestNeverResolves ==
    \A r \in RequestIds :
        SelectorOf(r) = "decryptEnergyData" =>
            getSystemFromHash(requestToDataId[r]) = <<>>

\* A request id recorded by a sum request, delivered to the reveal callback,
\* changes no record and not the sum.
SumRequestNeverReveals ==
    \A r \in RequestIds, c \in Cleartexts, p \in BOOLEAN :
        (SelectorOf(r) = "decryptLoadSum" /\ decryptEnergyData(r, c, p)) =>
            /\ lastTx'.status # "ok"
            /\ UNCHANGED <<decryptedData, encryptedLoadSum>>

\* C19: submission ids and system-key hashes are not confused through the
\* shared request mapping, in either direction.
C19_NoConfusion ==
    /\ []RevealRequestNeverResolves
    /\ [][SumRequestNeverReveals]_vars

\* ---------------------------------------------------------------- C20
\* Two request ids mapped to distinct ids, neither revealed.
BothOutstanding(rA, rB) ==
    LET a == requestToDataId[rA]
        b == requestToDataId[rB]
    IN  /\ a # 0
        /\ b # 0
        /\ a # b
        /\ ~decryptedData[a].isRevealed
        /\ ~decryptedData[b].isRevealed

\* The two callbacks commute: the same storage whichever comes first.
Commute ==
    \A rA, rB \in RequestIds, cA, cB \in DataCleartexts :
        BothOutstanding(rA, rB) =>
            ApplyReveal(ApplyReveal(CallbackState, rA, cA, TRUE), rB, cB, TRUE)
                = ApplyReveal(ApplyReveal(CallbackState, rB, cB, TRUE), rA, cA, TRUE)

\* A successful callback for rA leaves the entry and the record of every
\* other outstanding request as they were, and that request's callback
\* succeeds in the state reached.
OtherUntouched ==
    (lastTx'.op = "decryptEnergyData" /\ lastTx'.status = "ok") =>
        \A rA, rB \in RequestIds, cA \in DataCleartexts :
            (BothOutstanding(rA, rB) /\ decryptEnergyData(rA, cA, TRUE)) =>
                LET b == requestToDataId[rB]
                IN  /\ lastTx'.status = "ok"
                    /\ requestToDataId'[rB] = b
                    /\ decryptedData'[b] = decryptedData[b]
                    /\ \A cB \in DataCleartexts :
                           ApplyReveal(CallbackState', rB, cB, TRUE).status = "ok"

\* C20: pending requests for different ids are independent: the callback of
\* one leaves the other's mapping entry and record untouched, the other
\* callback still succeeds, and the final state does not depend on which of
\* the two is delivered first.
C20_PendingRequestsIndependent ==
    /\ []Commute
    /\ [][OtherUntouched]_vars

\* Two outstanding requests were both delivered, the later request first.
C20_Witness ==
    /\ Succeeded("decryptEnergyData")
    /\ requestToDataId[0] = 1
    /\ requestToDataId[1] = 2
    /\ applied = {0, 1}
    /\ lastTx.events = << <<"EnergyDataDecrypted", 1>> >>
    /\ decryptedData[1].isRevealed
    /\ decryptedData[2].isRevealed

\* ---------------------------------------------------------------- C21
\* Two distinct request ids mapped to the same existing, un-revealed
\* submission.
TwoRequestsForOne(rA, rB) ==
    /\ rA # rB
    /\ requestToDataId[rA] = requestToDataId[rB]
    /\ requestToDataId[rA] \in 1..dataCount
    /\ ~decryptedData[requestToDataId[rA]].isRevealed

\* Whichever of the two valid callbacks arrives first succeeds, writes the
\* record and adds its load; the other is rejected with AlreadyRevealed and
\* leaves what the first one left.
FirstDeliveryWins ==
    \A rA, rB \in RequestIds, cA, cB \in DataCleartexts :
        TwoRequestsForOne(rA, rB) =>
            LET first == ApplyReveal(CallbackState, rA, cA, TRUE)
                second == ApplyReveal(first, rB, cB, TRUE)
            IN  /\ first.status = "ok"
                /\ first.decryptedData[requestToDataId[rA]] = RevealedRecord(cA)
                /\ first.encryptedLoadSum["central_system"] =
                       Accumulate(encryptedLoadSum["central_system"], cA[3])
                /\ second = [first EXCEPT !.status = AlreadyRevealed]

\* A callback step rejected with AlreadyRevealed is one for a revealed
\* target, and it writes nothing.
RejectedSecondDelivery ==
    (lastTx'.op = "decryptEnergyData" /\ lastTx'.status = AlreadyRevealed) =>
        /\ \E r \in RequestIds :
               requestToDataId[r] # 0 /\ decryptedData[requestToDataId[r]].isRevealed
        /\ UNCHANGED <<storage, oracle>>

\* C21: when two reveal requests for the same existing id are both recorded
\* before any callback, then in either order of the two valid callbacks
\* exactly one succeeds and the other is rejected with AlreadyRevealed: the
\* record is written once and its load is added to the sum once.
C21_OneOfTwoDeliveriesSucceeds ==
    /\ []FirstDeliveryWins
    /\ [][CallbackConforms /\ RejectedSecondDelivery]_vars

\* Submission 1 was requested twice after it was stored; the callback of the
\* later request was applied and the callback of the earlier one rejected.
C21_Witness ==
    /\ lastTx.op = "decryptEnergyData"
    /\ lastTx.status = AlreadyRevealed
    /\ requestToDataId[0] = 1
    /\ requestToDataId[1] = 1
    /\ Answerable(0)
    /\ Answerable(1)
    /\ applied = {1}
    /\ decryptedData[1].isRevealed
    /\ encryptedLoadSum["central_system"] = FHE_asEuint32(decryptedData[1].systemLoad)

\* ---------------------------------------------------------------- C22
\* C22: a record becomes revealed only by a successful reveal callback for a
\* request id that an earlier reveal request mapped to that id, and revealed
\* is terminal: no later operation makes the record un-revealed again.
C22_Lifecycle ==
    [][\A i \in RecordIds :
          /\ (~decryptedData[i].isRevealed /\ decryptedData'[i].isRevealed) =>
                /\ lastTx'.op = "decryptEnergyData"
                /\ lastTx'.status = "ok"
                /\ \E r \in RequestIds :
                       /\ SelectorOf(r) = "decryptEnergyData"
                       /\ requestToDataId[r] = i
          /\ decryptedData[i].isRevealed =>
                (decryptedData'[i].isRevealed /\ decryptedData'[i] = decryptedData[i])]_vars

\* ---------------------------------------------------------------- C23
\* The record of id i holds the plaintexts of the usage and load handles of
\* submission i.
OwnPlaintexts(i) ==
    /\ decryptedData[i].tenantUsage = Decrypt(encryptedData[i].encryptedTenantUsage)
    /\ decryptedData[i].systemLoad = Decrypt(encryptedData[i].encryptedSystemLoad)

\* C23: with an oracle that answers a request with the plaintexts of the
\* handles of that request, every revealed record belongs to an existing
\* submission and holds the plaintexts of that submission's own usage and
\* load ciphertexts, never those of another submission.
C23_OwnPlaintextsRevealed ==
    \A i \in RecordIds :
        decryptedData[i].isRevealed => (i \in 1..dataCount /\ OwnPlaintexts(i))

\* Two submissions with different loads, both revealed by the oracle, each
\* record holding its own load.
C23_Witness ==
    /\ dataCount = 2
    /\ encryptedData[1].encryptedSystemLoad # encryptedData[2].encryptedSystemLoad
    /\ answered = {0, 1}
    /\ decryptedData[1].isRevealed
    /\ decryptedData[2].isRevealed
    /\ OwnPlaintexts(1)
    /\ OwnPlaintexts(2)

\* ---------------------------------------------------------------- C24
Registered(systemKey) == \E i \in 1..Len(systemList) : systemList[i] = systemKey

\* No key is registered twice, and the registered keys are those whose
\* accumulator is initialized.
RegistryMatchesAccumulators ==
    /\ \A i, j \in 1..Len(systemList) : systemList[i] = systemList[j] => i = j
    /\ \A k \in SystemKeyInputs : Registered(k) <=> FHE_isInitialized(encryptedLoadSum[k])

\* An accumulator comes into being in a successful reveal callback, as the
\* encryption of zero plus the revealed load, and its key is pushed in that
\* step; the registry changes in no other step.
LazyCreation ==
    /\ \A k \in SystemKeyInputs :
          (~FHE_isInitialized(encryptedLoadSum[k])
             /\ FHE_isInitialized(encryptedLoadSum'[k])) =>
              /\ lastTx'.op = "decryptEnergyData"
              /\ lastTx'.status = "ok"
              /\ systemList' = Append(systemList, k)
              /\ encryptedLoadSum'[k] =
                     FHE_add(FHE_asEuint32(ZeroU32),
                             FHE_asEuint32(decryptedData'[lastTx'.events[1][2]].systemLoad))
    /\ systemList' # systemList =>
          \E k \in SystemKeyInputs :
              ~FHE_isInitialized(encryptedLoadSum[k])
                 /\ FHE_isInitialized(encryptedLoadSum'[k])

\* C24: the accumulator of a system key is created by the first successful
\* reveal and its key is registered in that step only: the registry never
\* holds a key twice, and a key is registered exactly when its accumulator
\* is initialized.
C24_RegistryOfAccumulators ==
    /\ []RegistryMatchesAccumulators
    /\ [][LazyCreation]_vars

\* A second contribution has been added and the key is registered once.
C24_Witness ==
    /\ Succeeded("decryptEnergyData")
    /\ Cardinality(applied) = 2
    /\ Cardinality(RevealedIds) = 2
    /\ systemList = <<"central_system">>
    /\ FHE_isInitialized(encryptedLoadSum["central_system"])
    /\ ~FHE_isInitialized(encryptedLoadSum["hvac_zone"])

\* ---------------------------------------------------------------- C25
\* C25: the stored record of a submission (id, three handles, acceptance
\* timestamp) is immutable and never deleted: no step changes a field of an
\* existing submission, and the counter never decreases.
C25_SubmissionImmutable ==
    [][/\ dataCount' >= dataCount
       /\ \A i \in 1..dataCount :
             /\ encryptedData[i].id = i
             /\ encryptedData'[i] = encryptedData[i]]_vars

\* A second, different submission was stored after the first one was
\* requested and revealed; the first is as it was stored.
C25_Witness ==
    /\ Succeeded("submitEncryptedEnergyData")
    /\ dataCount = 2
    /\ decryptedData[1].isRevealed
    /\ answered = {0}
    /\ encryptedData[1].id = 1
    /\ encryptedData[1].encryptedSystemLoad = FHE_asEuint32(decryptedData[1].systemLoad)
    /\ encryptedData[2].encryptedSystemLoad # encryptedData[1].encryptedSystemLoad

\* ---------------------------------------------------------------- C26
\* A sum request for a key whose accumulator is initialized succeeds and is
\* recorded under the hash of the key, whatever was requested or delivered
\* before.
SumRequestAccepted ==
    lastTx'.op = "requestLoadSumDecryption" =>
        \A k \in SystemKeyInputs, r \in RequestIdInputs :
            (FHE_isInitialized(encryptedLoadSum[k]) /\ requestLoadSumDecryption(k, r)) =>
                /\ lastTx'.status = "ok"
                /\ counterRequest' = counterRequest + 1
                /\ requestToDataId'[r] = Keccak(k)
                /\ oracleRequests'[r] = <<"decryptLoadSum", <<encryptedLoadSum[k]>> >>

\* A successful sum callback leaves every accumulator and the registry as
\* they were.
SumDeliveryKeepsAccumulators ==
    (lastTx'.op = "decryptLoadSum" /\ lastTx'.status = "ok") =>
        /\ encryptedLoadSum' = encryptedLoadSum
        /\ systemList' = systemList

\* C26: requesting the sum stays possible after the sum was delivered: in
\* every state where the accumulator of a key is initialized, also after
\* successful sum callbacks for that key, a new sum request succeeds and
\* records a new pending request mapped to the hash of the key.
C26_SumRequestRepeatable ==
    [][SumRequestAccepted /\ SumDeliveryKeepsAccumulators]_vars

\* The sum of "central_system" was requested, delivered by the oracle, and
\* then requested again with success.
C26_Witness ==
    /\ Succeeded("requestLoadSumDecryption")
    /\ counterRequest = 3
    /\ 1 \in answered
    /\ SelectorOf(1) = "decryptLoadSum"
    /\ SelectorOf(2) = "decryptLoadSum"
    /\ requestToDataId[1] = Keccak("central_system")
    /\ requestToDataId[2] = Keccak("central_system")

\* ---------------------------------------------------------------- C27
\* C27: the sum decrypts to the arithmetic sum of the revealed loads: every
\* successful reveal takes the plaintext of the sum to the integer sum of
\* its old plaintext and the revealed load, without reduction modulo 2^32.
C27_NoWraparound ==
    [][(lastTx'.op = "decryptEnergyData" /\ lastTx'.status = "ok") =>
          PlainSum("central_system")' =
              AddWide(PlainSum("central_system"),
                      decryptedData'[lastTx'.events[1][2]].systemLoad)]_vars

\* ---------------------------------------------------------------- C28
\* Request id r is recorded for the existing submission i, with the handles
\* of a stored submission.
PendingFor(r, i) ==
    /\ i \in 1..dataCount
    /\ requestToDataId[r] = i
    /\ SelectorOf(r) = "decryptEnergyData"
    /\ Answerable(r)

\* A record becomes revealed in a successful reveal callback and in no other
\* step.
OnlyCallbackReveals ==
    \A i \in RecordIds :
        (~decryptedData[i].isRevealed /\ decryptedData'[i].isRevealed) =>
            /\ lastTx'.op = "decryptEnergyData"
            /\ lastTx'.status = "ok"
            /\ lastTx'.events = << <<"EnergyDataDecrypted", i>> >>

\* C28: when the oracle eventually answers every request, every existing
\* submission with a recorded reveal request is eventually revealed; and
\* nothing but a callback reveals it: no other operation resolves a pending
\* request.
C28_EventuallyRevealed ==
    /\ \A i \in 1..MaxData :
           (\E r \in RequestIds : PendingFor(r, i)) ~> decryptedData[i].isRevealed
    /\ [][OnlyCallbackReveals]_vars

\* The oracle has answered the request of submission 2 while submission 1
\* has no request and stays un-revealed.
C28_Witness ==
    /\ Succeeded("decryptEnergyData")
    /\ dataCount = 2
    /\ PendingFor(0, 2)
    /\ answered = {0}
    /\ decryptedData[2].isRevealed
    /\ ~decryptedData[1].isRevealed
    /\ \A r \in RequestIdInputs : requestToDataId[r] # 1

====
